---- MODULE Spec2Model ----
(***************************************************************************)
(* Brightness Tool browser extension.                                      *)
(*                                                                         *)
(*   Spec        the background service worker (background.js): the image  *)
(*               store, toolTabId, context-menu registrations with their   *)
(*               await points, the runtime message handlers, and the       *)
(*               editor tabs as far as they exchange messages with it.     *)
(*   SpecStore   the same worker with hours passing between its handlers   *)
(*               and 'ready' messages arriving from any page.              *)
(*   SpecEditor  one editor page (tool.js, class BrightnessTool): loads,   *)
(*               sliders, zoom and pan, reset, export.                     *)
(*   SpecView    the editor page with a loaded image: the same, and the    *)
(*               wheel.                                                    *)
(*   SpecBack    the editor page and its back button, in the variant that  *)
(*               closes the tab and in the one that does not.              *)
(*   SpecMessages the worker's onMessage listener with its messages as     *)
(*               inputs.                                                   *)
(*   SpecFilter  the pixel transform applyFilters as a pure function.      *)
(***************************************************************************)
EXTENDS Integers, Sequences, FiniteSets

(***************************************************************************)
(* Bounds of the model.                                                    *)
(***************************************************************************)
\* context-menu clicks handled in one run
MaxRegs == 2
\* advances of the clock that the handlers observe in one run
MaxTicks == 2
\* reloads of editor tabs in one run
MaxReloads == 1
\* calls of loadImageFromKey in one editor page
MaxLoads == 2
\* how far the canvas is dragged, in pixels
MaxPan == 4

(***************************************************************************)
(* Values.                                                                 *)
(***************************************************************************)
\* background.js:4  let toolTabId = null  (falsy; tab ids are positive)
NoTab == 0

\* tool.js:6  originalImageData = null
NoImage == << >>

\* no link was clicked
NoDownload == << >>

\* the back button was not clicked; closes tells the variant of the page whose
\* goBack ends with window.close() (unnamed/part_000) from tool.js, whose goBack
\* only asks for the focus
NoBack(closes) == [ pc |-> "idle", closes |-> closes, tabId |-> 0,
                    closed |-> FALSE, logged |-> FALSE, ended |-> "none" ]

\* the empty imageKey (no such key is ever generated)
NoKey == << >>

\* tabs in which the user right-clicks an image
SourceTabs == {1, 2}

\* the images behind info.srcUrl; "broken" is a resource the fetch returns
\* but the image decoder rejects
Images == {"imgA", "imgB", "broken"}

\* what the context-menu click of registration r carries: tab.id and info.srcUrl
ClickOf(r) == IF r % 2 = 1 THEN [ srcTab |-> 1, img |-> "imgA" ]
                           ELSE [ srcTab |-> 2, img |-> "imgB" ]

\* background.js:51  60 * 60 * 1000
OneHour == 60 * 60 * 1000

\* background.js:43  Date.now().toString(): the decimal digits of n
RECURSIVE ToString(_)
ToString(n) ==
    IF n < 10 THEN << n >> ELSE Append(ToString(n \div 10), n % 10)

\* background.js:35-40  FileReader.readAsDataURL: a data URL around the bytes
ReadAsDataURL(img) == << "data:", img >>

VARIABLES
    \* ---- the service worker and the browser around it
    now,              \* the last value Date.now() returned
    ticks,            \* clock advances observed so far
    imageDataStore,   \* background.js:3   Map key -> record
    toolTabId,        \* background.js:4
    regs,             \* the invocations of the contextMenus.onClicked listener
    tabs,             \* the editor tabs the browser holds (created by the worker)
    toEditor,         \* 'loadNewImage' messages in flight to a tab
    readyReqs,        \* 'ready' messages in flight to the worker
    initResps,        \* responses to an init's 'ready' in flight to the page
    closeNotices,     \* 'toolTabClosed' messages in flight to the worker
    removedEvents,    \* tabs.onRemoved events not yet handled by the worker
    reloads,          \* reloads of editor tabs so far
    \* ---- history of the run
    deliveredCount,   \* per registration: successful deliveries of its record
    lastResp,         \* what the 'ready' handler answered last (sendResponse)
    sent,             \* the last call of the onMessage listener: the type of its
                      \* message and what it passed to sendResponse, in order
    staleDelivered,   \* registrations whose record was delivered older than an hour
    dropped,          \* registrations whose 'loadNewImage' reached an open editor
                      \* page that had no listener for it
    overwritten,      \* registrations whose pending record another one replaced
    \* ---- one editor page (tool.js, class BrightnessTool)
    originalImageData,  \* tool.js:6    the pixels captured at load, or NoImage
    canvasData,         \* the pixels on the canvas (ctx.putImageData), or NoImage
    brightnessSlider,   \* tool.js:19   .value
    contrastSlider,     \* tool.js:20   .value
    exposureSlider,     \* tool.js:21   .value
    zoomSlider,         \* tool.js:22   .value, in tenths
    zoomLevel,          \* tool.js:11   in tenths
    panX,               \* tool.js:12
    panY,               \* tool.js:13
    isDragging,         \* tool.js:14
    lastMouseX,         \* tool.js:15
    lastMouseY,         \* tool.js:16
    sourceTabId,        \* tool.js:8
    errorShown,         \* errorMessage.style.display = 'flex'
    spinnerShown,       \* loadingSpinner.style.display # 'none'
    listening,          \* the 'loadNewImage' listener is registered
    loads,              \* the calls of loadImageFromKey that have not finished
    nLoads,             \* calls of loadImageFromKey so far
    lastEvent,          \* history: how the last load attempt ended
    download,           \* the link downloadImage clicked in the last step, if any
    back,               \* the back button: goBack under way, what it did
    \* ---- applyFilters as a function
    fin,                \* a pixel and the parameters
    fout                \* the pixel applyFilters leaves in the buffer

relayVars == << now, ticks, imageDataStore, toolTabId, regs, tabs, toEditor,
                readyReqs, initResps, closeNotices, removedEvents, reloads,
                deliveredCount, lastResp, sent, staleDelivered, dropped, overwritten >>

editorVars == << originalImageData, canvasData, brightnessSlider, contrastSlider,
                 exposureSlider, zoomSlider, zoomLevel, panX, panY, isDragging,
                 lastMouseX, lastMouseY, sourceTabId, errorShown, spinnerShown,
                 listening, loads, nLoads, lastEvent, download, back >>

filterVars == << fin, fout >>

vars == << relayVars, editorVars, filterVars >>

RegIds == 1 .. MaxRegs

IdleReg == [ pc |-> "idle", srcTab |-> NoTab, img |-> "none", imageKey |-> NoKey,
             probed |-> NoTab, newTab |-> NoTab, outcome |-> "none",
             target |-> NoTab, overlap |-> FALSE ]

\* no response sent yet
NoResp == [ key |-> NoKey, success |-> FALSE, base64 |-> << >>,
            sourceTabId |-> NoTab, error |-> "" ]

\* the onMessage listener was not called yet
NoCall == [ type |-> "none", responses |-> << >> ]

InFlight(r) == regs[r].pc \in {"fetch", "probe", "create"}

\* the next id the browser gives a new tab
NewTabId == Cardinality(SourceTabs) + Cardinality(DOMAIN tabs) + 1

(***************************************************************************)
(* The Map imageDataStore.                                                 *)
(***************************************************************************)
\* Map.prototype.set
MapSet(m, k, v) == [ x \in (DOMAIN m) \cup {k} |-> IF x = k THEN v ELSE m[x] ]

\* Map.prototype.delete
MapDelete(m, k) == [ x \in (DOMAIN m) \ {k} |-> m[x] ]

\* a purge that also deletes the entry that is exactly one hour old
PurgeOldInclusive(m, t) ==
    LET oneHourAgo == t - OneHour
    IN  [ x \in { k \in DOMAIN m : ~(m[k].timestamp <= oneHourAgo) } |-> m[x] ]

\* background.js:50-56  delete the entries older than one hour
PurgeOld(m, t) ==
    LET oneHourAgo == t - OneHour
    IN  [ x \in { k \in DOMAIN m : ~(m[k].timestamp < oneHourAgo) } |-> m[x] ]

(***************************************************************************)
(* The contextMenus.onClicked listener (background.js:21-92), one action   *)
(* per stretch of code between two awaits.                                 *)
(***************************************************************************)
SetReg(r, rec) == [ regs EXCEPT ![r] = rec ]

\* background.js:21-27  the listener starts and awaits fetch(info.srcUrl)
Click(r) ==
    /\ regs[r].pc = "idle"
    /\ \A o \in RegIds : o < r => regs[o].pc # "idle"
    /\ regs' = [ x \in RegIds |->
                   IF x = r
                   THEN [ regs[x] EXCEPT !.pc = "fetch", !.srcTab = ClickOf(r).srcTab,
                                         !.img = ClickOf(r).img,
                                         !.overlap = \E o \in RegIds : InFlight(o) ]
                   ELSE IF InFlight(x)
                        THEN [ regs[x] EXCEPT !.overlap = TRUE ]
                        ELSE regs[x] ]
    /\ UNCHANGED << now, ticks, imageDataStore, toolTabId, tabs, toEditor,
                    readyReqs, initResps, closeNotices, removedEvents,
                    deliveredCount, staleDelivered, dropped, overwritten,
                    reloads, lastResp, sent >>
    /\ UNCHANGED << editorVars, filterVars >>

\* a catch block that also forgets the tracked tab
FetchFailsClearsId(r) ==
    /\ regs[r].pc = "fetch"
    /\ regs' = SetReg(r, [ regs[r] EXCEPT !.pc = "done", !.outcome = "aborted" ])
    /\ toolTabId' = NoTab
    /\ UNCHANGED << now, ticks, imageDataStore, tabs, toEditor,
                    readyReqs, initResps, closeNotices, removedEvents,
                    deliveredCount, staleDelivered, dropped, overwritten,
                    reloads, lastResp, sent >>
    /\ UNCHANGED << editorVars, filterVars >>

\* background.js:27-30, 88-90  fetch throws or !response.ok: caught and logged
FetchFails(r) ==
    /\ regs[r].pc = "fetch"
    /\ regs' = SetReg(r, [ regs[r] EXCEPT !.pc = "done", !.outcome = "aborted" ])
    /\ UNCHANGED << now, ticks, imageDataStore, toolTabId, tabs, toEditor,
                    readyReqs, initResps, closeNotices, removedEvents,
                    deliveredCount, staleDelivered, dropped, overwritten,
                    reloads, lastResp, sent >>
    /\ UNCHANGED << editorVars, filterVars >>

\* background.js:83-84  chrome.tabs.create({url: tool.html?imageKey=..&fromTab=..})
\* is called: the browser opens the tab, the listener awaits the promise
OpenToolTab(key, fromTab) ==
    [ x \in (DOMAIN tabs) \cup {NewTabId} |->
        IF x = NewTabId
        THEN [ open |-> TRUE, onTool |-> TRUE, urlKey |-> key, fromTab |-> fromTab,
               pc |-> "boot", gen |-> 0 ]
        ELSE tabs[x] ]

\* background.js:42-48  the key and the record of a registration made at time t
NewRecord(r, t) ==
    [ base64 |-> ReadAsDataURL(regs[r].img), sourceTabId |-> regs[r].srcTab,
      timestamp |-> t, reg |-> r ]

\* Date.now() is monotone: a handler runs d ms after the last reading of the
\* clock, d being 0 (the same millisecond) or more
Elapsed == IF ticks < MaxTicks THEN Nat ELSE {0}

Advance(d) ==
    /\ now' = now + d
    /\ ticks' = IF d = 0 THEN ticks ELSE ticks + 1

\* a listener that routes the key without having inserted its record
StoreAndRouteKeyFirst(r, d) ==
    /\ regs[r].pc = "fetch"
    /\ d \in Elapsed
    /\ Advance(d)
    /\ LET t   == now + d
           key == ToString(t)
       IN  /\ imageDataStore' = PurgeOld(imageDataStore, t)
           /\ overwritten' = overwritten
           /\ IF toolTabId # NoTab
              THEN /\ regs' = SetReg(r, [ regs[r] EXCEPT !.pc = "probe", !.imageKey = key,
                                                         !.probed = toolTabId ])
                   /\ tabs' = tabs
              ELSE /\ regs' = SetReg(r, [ regs[r] EXCEPT !.pc = "create", !.imageKey = key,
                                                         !.newTab = NewTabId ])
                   /\ tabs' = OpenToolTab(key, regs[r].srcTab)
    /\ UNCHANGED << toolTabId, toEditor, readyReqs, initResps, closeNotices,
                    removedEvents, deliveredCount, staleDelivered, dropped, reloads, lastResp, sent >>
    /\ UNCHANGED << editorVars, filterVars >>

\* background.js:32-63, 81-84  the fetch succeeded: insert, purge, then either
\* probe the tracked tab (await chrome.tabs.get) or create a tab (await create)
StoreAndRoute(r, d) ==
    /\ regs[r].pc = "fetch"
    /\ d \in Elapsed
    /\ Advance(d)
    /\ LET t   == now + d
           key == ToString(t)
       IN  /\ imageDataStore' = PurgeOld(MapSet(imageDataStore, key, NewRecord(r, t)), t)
           /\ overwritten' = IF key \in DOMAIN imageDataStore
                             THEN overwritten \cup { imageDataStore[key].reg }
                             ELSE overwritten
           /\ IF toolTabId # NoTab
              THEN /\ regs' = SetReg(r, [ regs[r] EXCEPT !.pc = "probe", !.imageKey = key,
                                                         !.probed = toolTabId ])
                   /\ tabs' = tabs
              ELSE /\ regs' = SetReg(r, [ regs[r] EXCEPT !.pc = "create", !.imageKey = key,
                                                         !.newTab = NewTabId ])
                   /\ tabs' = OpenToolTab(key, regs[r].srcTab)
    /\ UNCHANGED << toolTabId, toEditor, readyReqs, initResps, closeNotices,
                    removedEvents, deliveredCount, staleDelivered, dropped, reloads, lastResp, sent >>
    /\ UNCHANGED << editorVars, filterVars >>

\* what chrome.tabs.get(id) answers: the tab, or a rejection
TabExists(t) == t \in DOMAIN tabs /\ tabs[t].open

\* background.js:64  existingTab && existingTab.url.includes('tool.html')
IsToolTab(t) == TabExists(t) /\ tabs[t].onTool

\* a catch block that leaves toolTabId as it is
ProbedKeepsId(r) ==
    /\ regs[r].pc = "probe"
    /\ IF IsToolTab(regs[r].probed) /\ toolTabId # NoTab
       THEN /\ toEditor' = toEditor \cup
                   { [ tab |-> toolTabId, imageKey |-> regs[r].imageKey,
                       sourceTabId |-> regs[r].srcTab, reg |-> r ] }
            /\ regs' = SetReg(r, [ regs[r] EXCEPT !.pc = "done", !.outcome = "messaged",
                                                  !.target = toolTabId ])
            /\ UNCHANGED << toolTabId, tabs >>
       ELSE /\ toolTabId' = toolTabId
            /\ regs' = SetReg(r, [ regs[r] EXCEPT !.pc = "create", !.newTab = NewTabId ])
            /\ tabs' = OpenToolTab(regs[r].imageKey, regs[r].srcTab)
            /\ UNCHANGED toEditor
    /\ UNCHANGED << now, ticks, imageDataStore, readyReqs, initResps, closeNotices,
                    removedEvents, deliveredCount, staleDelivered, dropped, overwritten,
                    reloads, lastResp, sent >>
    /\ UNCHANGED << editorVars, filterVars >>

\* background.js:63-86  chrome.tabs.get settled. sendMessage is called with the
\* value toolTabId has now; with null it throws and the catch runs
Probed(r) ==
    /\ regs[r].pc = "probe"
    /\ IF IsToolTab(regs[r].probed) /\ toolTabId # NoTab
       THEN /\ toEditor' = toEditor \cup
                   { [ tab |-> toolTabId, imageKey |-> regs[r].imageKey,
                       sourceTabId |-> regs[r].srcTab, reg |-> r ] }
            /\ regs' = SetReg(r, [ regs[r] EXCEPT !.pc = "done", !.outcome = "messaged",
                                                  !.target = toolTabId ])
            /\ UNCHANGED << toolTabId, tabs,
                    reloads, lastResp, sent >>
       ELSE /\ toolTabId' = IF TabExists(regs[r].probed) /\ ~IsToolTab(regs[r].probed)
                            THEN toolTabId
                            ELSE NoTab
            /\ regs' = SetReg(r, [ regs[r] EXCEPT !.pc = "create", !.newTab = NewTabId ])
            /\ tabs' = OpenToolTab(regs[r].imageKey, regs[r].srcTab)
            /\ UNCHANGED toEditor
    /\ UNCHANGED << now, ticks, imageDataStore, readyReqs, initResps, closeNotices,
                    removedEvents, deliveredCount, staleDelivered, dropped, overwritten,
                    reloads, lastResp, sent >>
    /\ UNCHANGED << editorVars, filterVars >>

\* background.js:84-85  chrome.tabs.create settled: toolTabId = newTab.id
Created(r) ==
    /\ regs[r].pc = "create"
    /\ toolTabId' = regs[r].newTab
    /\ regs' = SetReg(r, [ regs[r] EXCEPT !.pc = "done", !.outcome = "created",
                                          !.target = regs[r].newTab ])
    /\ UNCHANGED << now, ticks, imageDataStore, tabs, toEditor, readyReqs, initResps,
                    closeNotices, removedEvents, deliveredCount, staleDelivered, dropped,
                    overwritten,
                    reloads, lastResp, sent >>
    /\ UNCHANGED << editorVars, filterVars >>

(***************************************************************************)
(* The runtime.onMessage and tabs.onRemoved listeners of the worker.       *)
(***************************************************************************)
\* a failure answered without its reason
ReadyResponseSilent(store, key) ==
    IF key \in DOMAIN store
    THEN [ success |-> TRUE, base64 |-> store[key].base64,
           sourceTabId |-> store[key].sourceTabId, error |-> "" ]
    ELSE [ success |-> FALSE, base64 |-> << >>, sourceTabId |-> NoTab, error |-> "" ]

\* background.js:96-114  the 'ready' branch: the response and the store after it
ReadyResponse(store, key) ==
    IF key \in DOMAIN store
    THEN [ success |-> TRUE, base64 |-> store[key].base64,
           sourceTabId |-> store[key].sourceTabId, error |-> "" ]
    ELSE [ success |-> FALSE, base64 |-> << >>, sourceTabId |-> NoTab,
           error |-> "Image data not found or expired" ]

\* background.js:116-119, 122-125  sendResponse({ success: true })
SuccessResponse == [ success |-> TRUE ]

\* a 'ready' branch without its else: the refusal is sent after the record
OnMessageNoElse(type, imageKey, tabId, store) ==
    (IF type = "ready" /\ imageKey # NoKey
     THEN IF imageKey \in DOMAIN store
          THEN << ReadyResponse(store, imageKey),
                  ReadyResponse(MapDelete(store, imageKey), imageKey) >>
          ELSE << ReadyResponse(store, imageKey) >>
     ELSE << >>)
    \o (IF type = "focusTab" /\ tabId # NoTab THEN << SuccessResponse >> ELSE << >>)
    \o (IF type = "toolTabClosed" THEN << SuccessResponse >> ELSE << >>)

\* background.js:95-128  the calls of sendResponse the listener makes on a
\* message, in order: its three if statements run one after the other
OnMessage(type, imageKey, tabId, store) ==
    (IF type = "ready" /\ imageKey # NoKey
     THEN << ReadyResponse(store, imageKey) >>
     ELSE << >>)
    \o (IF type = "focusTab" /\ tabId # NoTab THEN << SuccessResponse >> ELSE << >>)
    \o (IF type = "toolTabClosed" THEN << SuccessResponse >> ELSE << >>)

\* unnamed/part_001:67-94  the listener of the variant, which has no
\* 'toolTabClosed' branch
OnMessagePlain(type, imageKey, tabId, store) ==
    (IF type = "ready" /\ imageKey # NoKey
     THEN << ReadyResponse(store, imageKey) >>
     ELSE << >>)
    \o (IF type = "focusTab" /\ tabId # NoTab THEN << SuccessResponse >> ELSE << >>)

\* a handler that answers and forgets to delete the record
ReadyStoreKeeps(store, key) == store

\* background.js:100, 106-107  the store after the 'ready' branch
ReadyStore(store, key) ==
    IF key \in DOMAIN store THEN MapDelete(store, key) ELSE store

\* background.js:95-114, 127  the listener runs on the 'ready' message q, which
\* carries a non-empty imageKey
HandleReady(q, d) ==
    /\ d \in Elapsed
    /\ Advance(d)
    /\ q.imageKey # NoKey
    /\ readyReqs' = readyReqs \ {q}
    /\ imageDataStore' = ReadyStore(imageDataStore, q.imageKey)
    /\ sent' = [ type |-> "ready",
                 responses |-> OnMessage("ready", q.imageKey, NoTab, imageDataStore) ]
    /\ LET resp == ReadyResponse(imageDataStore, q.imageKey)
           had  == q.imageKey \in DOMAIN imageDataStore
           rec  == imageDataStore[q.imageKey]
       IN  /\ lastResp' = [ key |-> q.imageKey, success |-> resp.success,
                            base64 |-> resp.base64, sourceTabId |-> resp.sourceTabId,
                            error |-> resp.error ]
           /\ staleDelivered' =
                IF resp.success /\ had /\ (now + d) - rec.timestamp > OneHour
                THEN staleDelivered \cup { rec.reg }
                ELSE staleDelivered
           /\ deliveredCount' =
                IF resp.success /\ had
                THEN [ deliveredCount EXCEPT ![rec.reg] = @ + 1 ]
                ELSE deliveredCount
    \* the response reaches the page only if that page still exists
    /\ initResps' = IF q.via = 0 /\ TabExists(q.tab) /\ tabs[q.tab].gen = q.gen
                       /\ tabs[q.tab].pc = "initwait"
                    THEN initResps \cup { [ tab |-> q.tab, gen |-> q.gen ] }
                    ELSE initResps
    /\ UNCHANGED << toolTabId, regs, tabs, toEditor, closeNotices,
                    removedEvents, dropped, overwritten,
                    reloads >>
    /\ UNCHANGED << editorVars, filterVars >>

\* a 'ready' message in flight reaches the listener
ReadyHandler(q, d) == q \in readyReqs /\ HandleReady(q, d)

\* background.js:116-119  the listener runs on a 'focusTab' message with a tab
\* id: chrome.tabs.update(tabId, { active: true }), its rejection logged
HandleFocusTab(tabId) ==
    /\ tabId # NoTab
    /\ sent' = [ type |-> "focusTab",
                 responses |-> OnMessage("focusTab", NoKey, tabId, imageDataStore) ]
    /\ UNCHANGED << now, ticks, imageDataStore, toolTabId, regs, tabs, toEditor,
                    readyReqs, initResps, closeNotices, removedEvents, deliveredCount,
                    staleDelivered, dropped, overwritten, reloads, lastResp >>
    /\ UNCHANGED << editorVars, filterVars >>

\* tool.js:67  the message { type: 'toolTabClosed' } of some page
CloseMessage == [ tab |-> NoTab, gen |-> 0, cause |-> "none", tracked |-> FALSE ]

\* background.js:121-125  the listener runs on the 'toolTabClosed' message m
HandleToolTabClosed(m) ==
    /\ closeNotices' = closeNotices \ {m}
    /\ toolTabId' = NoTab
    /\ sent' = [ type |-> "toolTabClosed",
                 responses |-> OnMessage("toolTabClosed", NoKey, NoTab, imageDataStore) ]
    /\ UNCHANGED << now, ticks, imageDataStore, regs, tabs, toEditor, readyReqs,
                    initResps, removedEvents, deliveredCount, staleDelivered, dropped,
                    overwritten,
                    reloads, lastResp >>
    /\ UNCHANGED << editorVars, filterVars >>

\* a 'toolTabClosed' message in flight reaches the listener
ToolTabClosedHandler(m) == m \in closeNotices /\ HandleToolTabClosed(m)

\* background.js:131-135  chrome.tabs.onRemoved
TabRemovedHandler(t) ==
    /\ t \in removedEvents
    /\ removedEvents' = removedEvents \ {t}
    /\ toolTabId' = IF t = toolTabId THEN NoTab ELSE toolTabId
    /\ UNCHANGED << now, ticks, imageDataStore, regs, tabs, toEditor, readyReqs,
                    initResps, closeNotices, deliveredCount, staleDelivered, dropped,
                    overwritten,
                    reloads, lastResp, sent >>
    /\ UNCHANGED << editorVars, filterVars >>

(***************************************************************************)
(* An editor tab, as far as the worker sees it (tool.js:40-92).            *)
(*   pc "boot"      the page is loading, init has not run                  *)
(*      "initwait"  init awaits loadImageFromKey(imageKey) of the URL       *)
(*      "ready"     init went on: the onMessage and beforeunload listeners  *)
(*                  are registered                                         *)
(*      "none"      the tab shows another page, or is closed               *)
(***************************************************************************)
SetTab(t, rec) == [ tabs EXCEPT ![t] = rec ]

\* tool.js:40-55, 71-76  DOMContentLoaded: init sends 'ready' for the URL's key
EditorInit(t) ==
    /\ IsToolTab(t)
    /\ tabs[t].pc = "boot"
    /\ tabs[t].urlKey # NoKey
    /\ tabs' = SetTab(t, [ tabs[t] EXCEPT !.pc = "initwait" ])
    /\ readyReqs' = readyReqs \cup
          { [ tab |-> t, gen |-> tabs[t].gen, imageKey |-> tabs[t].urlKey, via |-> 0 ] }
    /\ UNCHANGED << now, ticks, imageDataStore, toolTabId, regs, toEditor, initResps,
                    closeNotices, removedEvents, deliveredCount, staleDelivered, dropped,
                    overwritten,
                    reloads, lastResp, sent >>
    /\ UNCHANGED << editorVars, filterVars >>

\* tool.js:55-68  the awaited loadImageFromKey returned (it catches its errors):
\* init registers the 'loadNewImage' and the beforeunload listeners
EditorInitDone(t) ==
    /\ IsToolTab(t)
    /\ tabs[t].pc = "initwait"
    /\ [ tab |-> t, gen |-> tabs[t].gen ] \in initResps
    /\ initResps' = initResps \ { [ tab |-> t, gen |-> tabs[t].gen ] }
    /\ tabs' = SetTab(t, [ tabs[t] EXCEPT !.pc = "ready" ])
    /\ UNCHANGED << now, ticks, imageDataStore, toolTabId, regs, toEditor, readyReqs,
                    closeNotices, removedEvents, deliveredCount, staleDelivered, dropped,
                    overwritten,
                    reloads, lastResp, sent >>
    /\ UNCHANGED << editorVars, filterVars >>

\* tool.js:58-63  does the page in tab t have the 'loadNewImage' listener
HasListener(t) == IsToolTab(t) /\ tabs[t].pc = "ready"

\* tool.js:58-63, 71-76  a 'loadNewImage' message arrives at its tab: the listener
\* calls loadImageFromKey, which sends 'ready'; with no listener it is lost
RecvLoadNewImage(m) ==
    /\ m \in toEditor
    /\ toEditor' = toEditor \ {m}
    /\ IF HasListener(m.tab)
       THEN /\ readyReqs' = readyReqs \cup
                  { [ tab |-> m.tab, gen |-> tabs[m.tab].gen, imageKey |-> m.imageKey,
                      via |-> m.reg ] }
            /\ dropped' = dropped
       ELSE /\ readyReqs' = readyReqs
            /\ dropped' = IF IsToolTab(m.tab) THEN dropped \cup { m.reg } ELSE dropped
    /\ UNCHANGED << now, ticks, imageDataStore, toolTabId, regs, tabs, initResps,
                    closeNotices, removedEvents, deliveredCount, staleDelivered, overwritten,
                    reloads, lastResp, sent >>
    /\ UNCHANGED << editorVars, filterVars >>

\* tool.js:65-68  beforeunload of the page in tab t sends 'toolTabClosed'
\* (the listener exists only once init went on).  The message carries nothing but
\* its type; the model notes its sender, why the page unloaded, and whether
\* the tab was the tracked one then
UnloadNotices(t, cause) ==
    IF HasListener(t)
    THEN closeNotices \cup { [ tab |-> t, gen |-> tabs[t].gen, cause |-> cause,
                               tracked |-> (t = toolTabId) ] }
    ELSE closeNotices

\* the user reloads the editor tab: the page unloads and loads again
TabReload(t) ==
    /\ IsToolTab(t)
    /\ reloads < MaxReloads
    /\ reloads' = reloads + 1
    /\ closeNotices' = UnloadNotices(t, "reload")
    /\ tabs' = SetTab(t, [ tabs[t] EXCEPT !.pc = "boot", !.gen = @ + 1 ])
    /\ initResps' = { x \in initResps : x.tab # t }
    /\ UNCHANGED << now, ticks, imageDataStore, toolTabId, regs, toEditor, readyReqs,
                    removedEvents, deliveredCount, staleDelivered, dropped, overwritten, lastResp, sent >>
    /\ UNCHANGED << editorVars, filterVars >>

\* the user navigates the editor tab to another site
TabNavigateAway(t) ==
    /\ IsToolTab(t)
    /\ closeNotices' = UnloadNotices(t, "navigate")
    /\ tabs' = SetTab(t, [ tabs[t] EXCEPT !.pc = "none", !.onTool = FALSE ])
    /\ initResps' = { x \in initResps : x.tab # t }
    /\ UNCHANGED << now, ticks, imageDataStore, toolTabId, regs, toEditor, readyReqs,
                    removedEvents, deliveredCount, staleDelivered, dropped, overwritten,
                    reloads, lastResp, sent >>
    /\ UNCHANGED << editorVars, filterVars >>

\* the user closes the tab: the page unloads, the browser queues onRemoved
TabClose(t) ==
    /\ TabExists(t)
    /\ closeNotices' = UnloadNotices(t, "close")
    /\ tabs' = SetTab(t, [ tabs[t] EXCEPT !.pc = "none", !.open = FALSE ])
    /\ removedEvents' = removedEvents \cup {t}
    /\ initResps' = { x \in initResps : x.tab # t }
    /\ UNCHANGED << now, ticks, imageDataStore, toolTabId, regs, toEditor, readyReqs,
                    deliveredCount, staleDelivered, dropped, overwritten,
                    reloads, lastResp, sent >>
    /\ UNCHANGED << editorVars, filterVars >>

(***************************************************************************)
(* The worker after it started: empty store, no tracked tab.  Time counts  *)
(* from the start of the worker.                                           *)
(***************************************************************************)
RelayInit ==
    /\ now = 1
    /\ ticks = 0
    /\ imageDataStore = << >>
    /\ toolTabId = NoTab
    /\ regs = [ r \in RegIds |-> IdleReg ]
    /\ tabs = << >>
    /\ toEditor = {}
    /\ readyReqs = {}
    /\ initResps = {}
    /\ closeNotices = {}
    /\ removedEvents = {}
    /\ reloads = 0
    /\ deliveredCount = [ r \in RegIds |-> 0 ]
    /\ lastResp = NoResp
    /\ sent = NoCall
    /\ staleDelivered = {}
    /\ dropped = {}
    /\ overwritten = {}

\* no editor page is looked at
EditorIdle ==
    /\ originalImageData = NoImage
    /\ canvasData = NoImage
    /\ brightnessSlider = 0
    /\ contrastSlider = 0
    /\ exposureSlider = 0
    /\ zoomSlider = 10
    /\ zoomLevel = 10
    /\ panX = 0
    /\ panY = 0
    /\ isDragging = FALSE
    /\ lastMouseX = 0
    /\ lastMouseY = 0
    /\ sourceTabId = NoTab
    /\ errorShown = FALSE
    /\ spinnerShown = TRUE
    /\ listening = FALSE
    /\ loads = {}
    /\ nLoads = 0
    /\ lastEvent = "none"
    /\ download = NoDownload
    /\ back = NoBack(FALSE)

\* applyFilters is not looked at
FilterIdle ==
    /\ fin = << >>
    /\ fout = << >>

Init == RelayInit /\ EditorIdle /\ FilterIdle

Next ==
    \/ \E r \in RegIds : Click(r)
    \/ \E r \in RegIds : FetchFails(r)
    \/ \E r \in RegIds, d \in {0, 1} : StoreAndRoute(r, d)
    \/ \E r \in RegIds : Probed(r)
    \/ \E r \in RegIds : Created(r)
    \/ \E q \in readyReqs : ReadyHandler(q, 0)
    \/ \E m \in closeNotices : ToolTabClosedHandler(m)
    \/ \E t \in removedEvents : TabRemovedHandler(t)
    \/ \E t \in DOMAIN tabs : EditorInit(t)
    \/ \E t \in DOMAIN tabs : EditorInitDone(t)
    \/ \E m \in toEditor : RecvLoadNewImage(m)
    \/ \E t \in DOMAIN tabs : TabReload(t)
    \/ \E t \in DOMAIN tabs : TabNavigateAway(t)
    \/ \E t \in DOMAIN tabs : TabClose(t)

Spec == Init /\ [][Next]_vars

(***************************************************************************)
(* The same worker with hours passing between its handlers.  The 'ready'   *)
(* messages are inputs here: any extension page may send one, with the key *)
(* of any registration or with a key that was never registered.            *)
(***************************************************************************)
\* a key no registration gets (the clock starts at 1)
UnknownKey == ToString(0)

RequestKeys == ({ regs[r].imageKey : r \in RegIds } \ {NoKey}) \cup {UnknownKey}

\* tool.js:73-76  the message { type: 'ready', imageKey: k } of some page
ReadyMessage(k) == [ tab |-> NoTab, gen |-> 0, imageKey |-> k, via |-> 0 ]

\* background.js:43, 51  two registrations in the same millisecond or an hour
\* apart
StoreElapsed == {0, OneHour}

\* background.js:51, 100  the request arrives in the millisecond of the previous
\* event or after the retention window has passed
ReadyElapsed == {0, OneHour + 1}

NextStore ==
    \/ \E r \in RegIds : Click(r)
    \/ \E r \in RegIds : FetchFails(r)
    \/ \E r \in RegIds, d \in StoreElapsed : StoreAndRoute(r, d)
    \/ \E r \in RegIds : Probed(r)
    \/ \E r \in RegIds : Created(r)
    \/ \E k \in RequestKeys, d \in ReadyElapsed : HandleReady(ReadyMessage(k), d)

SpecStore == Init /\ [][NextStore]_vars

(***************************************************************************)
(* Claims about the image store.                                           *)
(***************************************************************************)
\* what a step of the 'ready' handler does to the store and answers
C1_ReadyStep ==
    \A q \in { ReadyMessage(k) : k \in RequestKeys }, d \in ReadyElapsed :
        HandleReady(q, d) =>
            IF q.imageKey \in DOMAIN imageDataStore
            THEN /\ lastResp'.success
                 /\ lastResp'.base64 = imageDataStore[q.imageKey].base64
                 /\ lastResp'.sourceTabId = imageDataStore[q.imageKey].sourceTabId
                 /\ q.imageKey \notin DOMAIN imageDataStore'
            ELSE /\ ~lastResp'.success
                 /\ imageDataStore' = imageDataStore

\* a key enters the store only by a registration
C1_OnlyRegistrationAdds ==
    (DOMAIN imageDataStore' \ DOMAIN imageDataStore # {}) =>
        \E r \in RegIds, d \in StoreElapsed : StoreAndRoute(r, d)

\* C1: a 'ready' request for a key in the store is answered success:true with the
\* stored base64 and sourceTabId and removes the record; a 'ready' request for a
\* key not in the store is answered success:false; keys come back only by a new
\* registration; so no registered record is delivered more than once.
C1_AtMostOneDelivery ==
    /\ [](\A r \in RegIds : deliveredCount[r] <= 1)
    /\ [][C1_ReadyStep /\ C1_OnlyRegistrationAdds]_vars

\* the record of a registration was delivered, and a later 'ready' request for
\* the same key was answered success:false
C1_Witness ==
    \E r \in RegIds :
        /\ deliveredCount[r] = 1
        /\ lastResp.key = regs[r].imageKey
        /\ ~lastResp.success
        /\ lastResp.error = "Image data not found or expired"

\* C4: no record older than one hour is ever delivered.
C4_StaleNeverDelivered == staleDelivered = {}

\* C5: no registration replaces the undelivered record of an earlier one (its
\* key differs from the key of every pending record).
C5_KeysDistinct == overwritten = {}

\* C17: after the insert and purge of a registration the store holds no record
\* older than 3,600,000 ms, it holds the record just inserted under the key of
\* the current time, and every record the step removed was older than that.
C17_PurgeKeepsWindow ==
    [][ \A r \in RegIds, d \in StoreElapsed :
          StoreAndRoute(r, d) =>
            /\ \A k \in DOMAIN imageDataStore' :
                   now' - imageDataStore'[k].timestamp <= OneHour
            /\ ToString(now') \in DOMAIN imageDataStore'
            /\ imageDataStore'[ToString(now')] =
                   [ base64 |-> ReadAsDataURL(regs[r].img),
                     sourceTabId |-> regs[r].srcTab, timestamp |-> now', reg |-> r ]
            /\ \A k \in DOMAIN imageDataStore \ DOMAIN imageDataStore' :
                   now' - imageDataStore[k].timestamp > OneHour
      ]_vars

\* one registration's record was purged undelivered by the registration whose
\* fresh record the store holds
C17_Witness ==
    /\ \E r \in RegIds :
          /\ regs[r].imageKey # NoKey
          /\ regs[r].imageKey \notin DOMAIN imageDataStore
          /\ deliveredCount[r] = 0
          /\ r \notin overwritten
    /\ \E k \in DOMAIN imageDataStore : imageDataStore[k].timestamp = now

\* C20: a 'ready' request for a key that is not in the store is answered
\* success:false with the reason 'Image data not found or expired' and leaves the
\* store and toolTabId as they were.
C20_AbsentKeyNotFound ==
    [][ \A k \in RequestKeys, d \in ReadyElapsed :
          (HandleReady(ReadyMessage(k), d) /\ k \notin DOMAIN imageDataStore) =>
            /\ lastResp' = [ key |-> k, success |-> FALSE, base64 |-> << >>,
                             sourceTabId |-> NoTab,
                             error |-> "Image data not found or expired" ]
            /\ imageDataStore' = imageDataStore
            /\ toolTabId' = toolTabId
      ]_vars

\* the key of a record that was purged undelivered was requested and refused,
\* while an editor tab is tracked and another record is pending
C20_Witness ==
    /\ \E r \in RegIds :
          /\ lastResp.key = regs[r].imageKey
          /\ deliveredCount[r] = 0
          /\ r \notin overwritten
    /\ ~lastResp.success
    /\ lastResp.error = "Image data not found or expired"
    /\ toolTabId # NoTab
    /\ imageDataStore # << >>

\* C21: a registration whose fetch fails ends there: the step leaves the store,
\* toolTabId, the tabs, the messages in flight and the clock as they were, and an
\* aborted registration has no key, has probed or created no tab, and no record,
\* tab or message carries its mark.
C21_FetchFailureLeavesRelay ==
    /\ [][ \A r \in RegIds :
              FetchFails(r) =>
                /\ UNCHANGED << imageDataStore, toolTabId, tabs, toEditor, now >>
                /\ regs'[r].pc = "done"
          ]_vars
    /\ [](\A r \in RegIds :
            regs[r].outcome = "aborted" =>
              /\ regs[r].pc = "done"
              /\ regs[r].imageKey = NoKey
              /\ regs[r].probed = NoTab /\ regs[r].newTab = NoTab
              /\ regs[r].target = NoTab
              /\ \A k \in DOMAIN imageDataStore : imageDataStore[k].reg # r
              /\ \A m \in toEditor : m.reg # r)

\* a registration was aborted by its fetch while an editor tab was tracked and
\* the record of another registration was pending
C21_Witness ==
    \E r \in RegIds :
        /\ regs[r].outcome = "aborted"
        /\ toolTabId # NoTab
        /\ \E k \in DOMAIN imageDataStore : imageDataStore[k].reg # r

\* the time a key was generated at: the number its digits spell
RECURSIVE KeyTime(_)
KeyTime(k) ==
    IF Len(k) = 0 THEN 0 ELSE 10 * KeyTime(SubSeq(k, 1, Len(k) - 1)) + k[Len(k)]

\* the keys the worker has made known to an editor: in the URL of a tab it
\* opened or in a 'loadNewImage' message
RoutedKeys ==
    { tabs[t].urlKey : t \in DOMAIN tabs } \cup { m.imageKey : m \in toEditor }
    \cup { regs[r].imageKey : r \in { x \in RegIds : regs[x].outcome = "messaged" } }

\* a record under key k was delivered
Fetched(k) == \E r \in RegIds : regs[r].imageKey = k /\ deliveredCount[r] >= 1

\* a registration made more than an hour after key k has purged the store
Purged(k) ==
    \E r \in RegIds :
        /\ regs[r].imageKey # NoKey
        /\ KeyTime(regs[r].imageKey) - KeyTime(k) > OneHour

\* C27: a key is made known to an editor only with its record inserted: every
\* routed key is the key of a registration and its record is in the store unless
\* it was fetched or purged; so a 'ready' request for a routed key that was
\* neither fetched nor purged is answered success:true with the record.
C27_RecordBeforeKey ==
    /\ [](\A k \in RoutedKeys :
            /\ \E r \in RegIds : regs[r].imageKey = k
            /\ k \in DOMAIN imageDataStore \/ Fetched(k) \/ Purged(k))
    /\ [][ \A k \in RequestKeys, d \in ReadyElapsed :
              ( /\ HandleReady(ReadyMessage(k), d)
                /\ k \in RoutedKeys /\ ~Fetched(k) /\ ~Purged(k) ) =>
                  /\ lastResp'.success
                  /\ lastResp'.key = k
                  /\ lastResp'.base64 = imageDataStore[k].base64
          ]_vars

\* the key of a registration went to the tracked tab by 'loadNewImage', and the
\* first 'ready' request for it was answered with the record
C27_Witness ==
    \E r \in RegIds :
        /\ regs[r].outcome = "messaged"
        /\ \E m \in toEditor : m.imageKey = regs[r].imageKey
        /\ deliveredCount[r] = 1
        /\ lastResp.key = regs[r].imageKey
        /\ lastResp.success

\* the registration that created key k: the first one that generated it
CreatorOf(k) ==
    CHOOSE r \in RegIds :
        /\ regs[r].imageKey = k
        /\ \A o \in RegIds : regs[o].imageKey = k => r <= o

\* C28: a 'ready' request answered success:true carries the data URL of the image
\* and the id of the tab of the context-menu click of the registration that
\* created its key; and while a record is in the store its payload and its
\* source tab do not change.
C28_DeliveredAsStored ==
    [][ /\ \A k \in RequestKeys, d \in ReadyElapsed :
              (HandleReady(ReadyMessage(k), d) /\ lastResp'.success) =>
                /\ lastResp'.base64 = ReadAsDataURL(ClickOf(CreatorOf(k)).img)
                /\ lastResp'.sourceTabId = ClickOf(CreatorOf(k)).srcTab
        /\ \A k \in (DOMAIN imageDataStore) \cap (DOMAIN imageDataStore') :
              /\ imageDataStore'[k].base64 = imageDataStore[k].base64
              /\ imageDataStore'[k].sourceTabId = imageDataStore[k].sourceTabId
      ]_vars

(***************************************************************************)
(* The onMessage listener of the worker with its messages as inputs: any   *)
(* extension page may send 'ready', 'focusTab' or 'toolTabClosed' at any   *)
(* time.                                                                   *)
(***************************************************************************)
NextMessages ==
    \/ \E r \in RegIds : Click(r)
    \/ \E r \in RegIds : FetchFails(r)
    \/ \E r \in RegIds, d \in {0, 1} : StoreAndRoute(r, d)
    \/ \E r \in RegIds : Probed(r)
    \/ \E r \in RegIds : Created(r)
    \/ \E k \in RequestKeys : HandleReady(ReadyMessage(k), 0)
    \/ \E t \in SourceTabs : HandleFocusTab(t)
    \/ HandleToolTabClosed(CloseMessage)

SpecMessages == Init /\ [][NextMessages]_vars

\* C29: the listener answers a 'ready' message with a key exactly once, in the
\* call that received it, with success or with failure; it answers a 'focusTab'
\* message with a tab id and a 'toolTabClosed' message exactly once, with
\* { success: true }; handling 'focusTab' leaves the store and toolTabId as they
\* were.  The listener of the variant answers 'ready' and 'focusTab' the same way.
C29_ExactlyOneResponse ==
    /\ [][ /\ \A k \in RequestKeys :
               HandleReady(ReadyMessage(k), 0) =>
                 /\ sent'.type = "ready"
                 /\ Len(sent'.responses) = 1
                 /\ sent'.responses[1].success = (k \in DOMAIN imageDataStore)
           /\ \A t \in SourceTabs :
               HandleFocusTab(t) =>
                 /\ sent'.type = "focusTab"
                 /\ sent'.responses = << SuccessResponse >>
                 /\ UNCHANGED << imageDataStore, toolTabId >>
           /\ HandleToolTabClosed(CloseMessage) =>
                 /\ sent'.type = "toolTabClosed"
                 /\ sent'.responses = << SuccessResponse >>
          ]_vars
    /\ [](/\ \A k \in RequestKeys :
               Len(OnMessagePlain("ready", k, NoTab, imageDataStore)) = 1
          /\ \A t \in SourceTabs :
               OnMessagePlain("focusTab", NoKey, t, imageDataStore)
                   = << SuccessResponse >>)

\* a 'ready' request was answered with a record, and then a 'focusTab' request
\* was answered while a tab was tracked and another record was pending
C29_Witness ==
    /\ sent.type = "focusTab"
    /\ sent.responses = << SuccessResponse >>
    /\ lastResp.success
    /\ toolTabId # NoTab
    /\ imageDataStore # << >>

(***************************************************************************)
(* Claims about the routing of images to editor tabs.                      *)
(***************************************************************************)
\* the editor tabs that are open and show the editor page
OpenToolTabs == { t \in DOMAIN tabs : IsToolTab(t) }

\* C2: of two registrations made one after the other, the first of which created
\* an editor tab that is still open on the editor page, the second creates no
\* tab: it sends 'loadNewImage' to that tab.
C2_SecondRegistrationReusesTab ==
    \A r1, r2 \in RegIds :
        ( /\ r2 = r1 + 1
          /\ regs[r1].pc = "done" /\ regs[r2].pc = "done"
          /\ ~regs[r1].overlap /\ ~regs[r2].overlap
          /\ regs[r1].outcome = "created"
          /\ regs[r2].outcome # "aborted"
          /\ IsToolTab(regs[r1].target) )
        => /\ regs[r2].outcome = "messaged"
           /\ regs[r2].target = regs[r1].target

\* C3: at most one editor tab created by the worker is open on the editor page.
C3_AtMostOneEditorTab == Cardinality(OpenToolTabs) <= 1

\* C6: a 'loadNewImage' message that reaches an open editor page is never lost:
\* the page answers it with a 'ready' request for its key.
C6_LoadNewImageNeverLost == dropped = {}

\* the probe of registration r found the tracked tab gone or off the editor page
ProbeFoundStale(r) == Probed(r) /\ ~IsToolTab(regs[r].probed)

\* C16: a registration whose probe finds the tracked tab gone clears toolTabId;
\* that registration, and one whose probe finds the tab on another page, sends no
\* 'loadNewImage', opens a new editor tab with its key and source tab in the URL,
\* and when the tab is created records it as toolTabId.
C16_StaleTabReplaced ==
    [][ \A r \in RegIds :
          /\ ProbeFoundStale(r) =>
               /\ toEditor' = toEditor
               /\ ~TabExists(regs[r].probed) => toolTabId' = NoTab
               /\ regs'[r].pc = "create"
               /\ regs'[r].newTab \notin DOMAIN tabs
               /\ regs'[r].newTab \in DOMAIN tabs'
               /\ tabs'[regs'[r].newTab].open /\ tabs'[regs'[r].newTab].onTool
               /\ tabs'[regs'[r].newTab].urlKey = regs[r].imageKey
               /\ tabs'[regs'[r].newTab].fromTab = regs[r].srcTab
          /\ (Created(r) /\ regs[r].probed # NoTab) =>
               /\ toolTabId' = regs[r].newTab
               /\ toolTabId' # regs[r].probed
               /\ tabs[toolTabId'].urlKey = regs[r].imageKey
      ]_vars

\* a registration found the tracked tab closed, sent no message, and created and
\* recorded a new tab
C16_Witness ==
    \E r \in RegIds :
        /\ regs[r].pc = "done"
        /\ regs[r].outcome = "created"
        /\ regs[r].probed # NoTab
        /\ ~TabExists(regs[r].probed)
        /\ toolTabId = regs[r].target
        /\ toEditor = {}

\* C18: toolTabId gets a tab id only when a registration's chrome.tabs.create has
\* settled, and it is cleared only when the tab it tracks is closed or has left
\* the editor page, never while that tab is open on the editor page.
C18_ToolTabIdStateMachine ==
    [][ /\ (toolTabId' # toolTabId /\ toolTabId' # NoTab) =>
              \E r \in RegIds : Created(r)
        /\ (toolTabId # NoTab /\ toolTabId' = NoTab) => ~IsToolTab(toolTabId)
      ]_vars

\* C19: when the tracked editor tab closes, whichever of its tab-removed event and
\* its 'toolTabClosed' notice is handled first sets toolTabId to null, the other
\* one leaves toolTabId and the store as they are; a tab-removed event for another
\* tab leaves toolTabId as it is.
C19_CloseEventsEitherOrder ==
    [][ /\ \A t \in removedEvents :
              TabRemovedHandler(t) =>
                /\ toolTabId' = IF t = toolTabId THEN NoTab ELSE toolTabId
                /\ imageDataStore' = imageDataStore
        /\ \A m \in closeNotices :
              (ToolTabClosedHandler(m) /\ m.cause = "close" /\ m.tracked) =>
                /\ imageDataStore' = imageDataStore
                /\ IF m.tab \in removedEvents
                   THEN toolTabId' = NoTab
                   ELSE toolTabId' = toolTabId
      ]_vars

\* a step of a handler of the worker that is not a step of registration r
OtherHandlerStep(r) ==
    \/ \E q \in readyReqs : ReadyHandler(q, 0)
    \/ \E m \in closeNotices : ToolTabClosedHandler(m)
    \/ \E t \in removedEvents : TabRemovedHandler(t)
    \/ \E o \in RegIds \ {r} :
          \/ Click(o)
          \/ FetchFails(o)
          \/ \E d \in {0, 1} : StoreAndRoute(o, d)
          \/ Probed(o)
          \/ Created(o)

\* C22: while a registration is under way (its listener has started and has not
\* yet routed its image) no other handler of the worker runs: no 'ready',
\* 'toolTabClosed' or tab-removed handler and no step of another registration.
C22_RegistrationAtomic ==
    [][ \A r \in RegIds : InFlight(r) => ~OtherHandlerStep(r) ]_vars

\* the worker has handled the tab-removed event of the closed tab t
ClosureObserved(t) ==
    /\ t \in DOMAIN tabs
    /\ ~tabs[t].open
    /\ t \notin removedEvents

\* C23: once the worker has observed that an editor tab closed, the store holds
\* no record of an image that was routed to that tab.
C23_ClosureCancelsPending ==
    \A r \in RegIds :
        (regs[r].pc = "done" /\ ClosureObserved(regs[r].target)) =>
            \A k \in DOMAIN imageDataStore : imageDataStore[k].reg # r

(***************************************************************************)
(* applyFilters (tool.js:249-276, and the variant without exposure).       *)
(* JavaScript numbers are modelled as exact fractions << n, d >>, d > 0;   *)
(* Math.pow(2, exposure / 50) is exact for the exposures that are          *)
(* multiples of 50, and those are the exposures the model draws.           *)
(***************************************************************************)
RInt(n) == << n, 1 >>

RAdd(x, y) == << x[1] * y[2] + y[1] * x[2], x[2] * y[2] >>

RMul(x, y) == << x[1] * y[1], x[2] * y[2] >>

RLess(x, y) == x[1] * y[2] < y[1] * x[2]

\* Math.max, Math.min
RMax(x, y) == IF RLess(x, y) THEN y ELSE x

RMin(x, y) == IF RLess(x, y) THEN x ELSE y

\* the same fraction with a small denominator
RNorm(x) ==
    LET RECURSIVE Gcd(_, _)
        Gcd(a, b) == IF b = 0 THEN a ELSE Gcd(b, a % b)
        g == Gcd(IF x[1] < 0 THEN -x[1] ELSE x[1], x[2])
    IN  << x[1] \div g, x[2] \div g >>

\* tool.js:251  (259 * (contrast + 255)) / (255 * (259 - contrast))
ContrastFactor(contrast) ==
    RNorm(<< 259 * (contrast + 255), 255 * (259 - contrast) >>)

\* the factor taken as a product, 2 * exposure / 50, instead of a power
ExposureFactorLinear(exposure) == << 2 * exposure, 50 >>

\* tool.js:252  Math.pow(2, exposure / 50)
ExposureFactor(exposure) ==
    LET RECURSIVE Pow2(_)
        Pow2(k) == IF k = 0 THEN 1 ELSE 2 * Pow2(k - 1)
        k == exposure \div 50
    IN  IF k >= 0 THEN << Pow2(k), 1 >> ELSE << 1, Pow2(-k) >>

\* tool.js:271  Math.max(0, Math.min(255, r))
Clamp(x) == RMax(RInt(0), RMin(RInt(255), x))

\* the store into a Uint8ClampedArray element: clamp to 0..255 and round to the
\* nearest integer, ties to even
ToUint8Clamped(x) ==
    LET c == Clamp(x)
        q == c[1] \div c[2]
        r == c[1] % c[2]
    IN  IF 2 * r < c[2] THEN q
        ELSE IF 2 * r > c[2] THEN q + 1
        ELSE IF q % 2 = 0 THEN q ELSE q + 1

\* exposure applied first, then brightness, then contrast
ChannelExposureFirst(v, brightness, contrast, exposure) ==
    LET r1 == RMul(RInt(v), ExposureFactor(exposure))
        r2 == RAdd(r1, RInt(brightness))
        r3 == RAdd(RMul(ContrastFactor(contrast), RAdd(r2, RInt(-128))), RInt(128))
    IN  ToUint8Clamped(Clamp(r3))

\* tool.js:256, 261, 266, 271  one colour channel of one pixel
FilterChannel(v, brightness, contrast, exposure) ==
    LET contrastFactor == ContrastFactor(contrast)
        exposureFactor == ExposureFactor(exposure)
        r1 == RInt(v + brightness)
        r2 == RAdd(RMul(contrastFactor, RAdd(r1, RInt(-128))), RInt(128))
        r3 == RMul(r2, exposureFactor)
    IN  ToUint8Clamped(Clamp(r3))

\* a loop that steps over every element, the alpha channel included
ApplyFiltersAlphaToo(px, brightness, contrast, exposure) ==
    [ i \in 1 .. 4 |-> FilterChannel(px[i], brightness, contrast, exposure) ]

\* tool.js:249-276  applyFilters on the buffer of one pixel << r, g, b, a >>
ApplyFilters(px, brightness, contrast, exposure) ==
    << FilterChannel(px[1], brightness, contrast, exposure),
       FilterChannel(px[2], brightness, contrast, exposure),
       FilterChannel(px[3], brightness, contrast, exposure),
       px[4] >>

\* unnamed/part_000:168, 173, 178  one colour channel, the variant without exposure
FilterChannelPlain(v, brightness, contrast) ==
    LET factor == ContrastFactor(contrast)
        r1 == RInt(v + brightness)
        r2 == RAdd(RMul(factor, RAdd(r1, RInt(-128))), RInt(128))
    IN  ToUint8Clamped(Clamp(r2))

\* unnamed/part_000:162-183  applyFilters of the variant without exposure
ApplyFiltersPlain(px, brightness, contrast) ==
    << FilterChannelPlain(px[1], brightness, contrast),
       FilterChannelPlain(px[2], brightness, contrast),
       FilterChannelPlain(px[3], brightness, contrast),
       px[4] >>

\* the values the model gives the sliders (the ranges are set in tool.html)
BrightnessValues == {-100, -50, 0, 50, 100}

ContrastValues == {-258, -100, 0, 100, 258}

ExposureValues == {-100, -50, 0, 50, 100}

\* the pixels the model filters: every red value, with other green, blue, alpha
FilterPixels == { << v, 255 - v, 128, a >> : v \in 0 .. 255, a \in {0, 200} }

FilterInputs ==
    /\ fin \in [ px : FilterPixels, brightness : BrightnessValues,
                 contrast : ContrastValues, exposure : ExposureValues,
                 variant : {"exposure"} ]
             \cup
             [ px : FilterPixels, brightness : BrightnessValues,
               contrast : ContrastValues, exposure : {0}, variant : {"plain"} ]
    /\ fout = << >>

\* tool.js:240  this.applyFilters(imageData, brightness, contrast, exposure)
RunApplyFilters ==
    /\ fout = << >>
    /\ fin.variant = "exposure"
    /\ fout' = ApplyFilters(fin.px, fin.brightness, fin.contrast, fin.exposure)
    /\ UNCHANGED << fin, relayVars, editorVars >>

\* unnamed/part_000:153  this.applyFilters(imageData, brightness, contrast)
RunApplyFiltersPlain ==
    /\ fout = << >>
    /\ fin.variant = "plain"
    /\ fout' = ApplyFiltersPlain(fin.px, fin.brightness, fin.contrast)
    /\ UNCHANGED << fin, relayVars, editorVars >>

NextFilter == RunApplyFilters \/ RunApplyFiltersPlain

InitFilter == RelayInit /\ EditorIdle /\ FilterInputs

SpecFilter == InitFilter /\ [][NextFilter]_vars

(***************************************************************************)
(* Claims about applyFilters.                                              *)
(***************************************************************************)
\* the stages of the transform, each on one channel value
StageExposure(x, exposure) == RMul(x, ExposureFactor(exposure))

StageBrightness(x, brightness) == RAdd(x, RInt(brightness))

StageContrast(x, contrast) ==
    RAdd(RMul(ContrastFactor(contrast), RAdd(x, RInt(-128))), RInt(128))

FinalClamp(x) == ToUint8Clamped(Clamp(x))

\* the reference transform in the order exposure, brightness, contrast
RefExposureBrightnessContrast(v, p) ==
    FinalClamp(StageContrast(StageBrightness(StageExposure(RInt(v), p.exposure),
                                             p.brightness), p.contrast))

\* the reference transform in the order brightness, contrast, exposure
RefBrightnessContrastExposure(v, p) ==
    FinalClamp(StageExposure(StageContrast(StageBrightness(RInt(v), p.brightness),
                                           p.contrast), p.exposure))

\* the reference transform of the variant without exposure: brightness, contrast
RefBrightnessContrast(v, p) ==
    FinalClamp(StageContrast(StageBrightness(RInt(v), p.brightness), p.contrast))

\* C9 as stated: every colour channel equals the reference transform composed in
\* the order exposure, brightness, contrast (brightness, contrast in the variant
\* without exposure), with one final clamp.
C9_OrderExposureFirst ==
    fout # << >> =>
        \A i \in 1 .. 3 :
            fout[i] = IF fin.variant = "exposure"
                      THEN RefExposureBrightnessContrast(fin.px[i], fin)
                      ELSE RefBrightnessContrast(fin.px[i], fin)

\* C9 amended: every colour channel equals the reference transform composed in
\* the order brightness, contrast, exposure (brightness, contrast in the variant
\* without exposure), with one final clamp.
C9_OrderBrightnessContrastExposure ==
    fout # << >> =>
        \A i \in 1 .. 3 :
            fout[i] = IF fin.variant = "exposure"
                      THEN RefBrightnessContrastExposure(fin.px[i], fin)
                      ELSE RefBrightnessContrast(fin.px[i], fin)

\* applyFilters ran with an exposure and a brightness that the order matters for
C9_Witness ==
    /\ fout # << >>
    /\ fin.variant = "exposure"
    /\ fin.exposure = 50 /\ fin.brightness = 50 /\ fin.contrast = 100
    /\ fin.px[1] = 60
    /\ fout[1] # RefExposureBrightnessContrast(fin.px[1], fin)

\* C10: every red, green and blue output lies in 0..255 and alpha is the input alpha.
C10_OutputInRange ==
    fout # << >> =>
        /\ \A i \in 1 .. 3 : fout[i] \in 0 .. 255
        /\ fout[4] = fin.px[4]

\* applyFilters ran on a pixel that the stages push out of 0..255 on both sides
C10_Witness ==
    /\ fout # << >>
    /\ fin.variant = "exposure"
    /\ fin.brightness = 100 /\ fin.contrast = 258 /\ fin.exposure = 100
    /\ fin.px[1] = 255 /\ fin.px[2] = 0
    /\ fout[1] = 255 /\ fout[2] = 0 /\ fout[4] = fin.px[4]

\* C11: with brightness 0, contrast 0 and exposure 0 applyFilters returns the
\* pixel unchanged, in both variants: the contrast factor and the exposure
\* factor are exactly 1.
C11_ZeroParametersIdentity ==
    (fout # << >> /\ fin.brightness = 0 /\ fin.contrast = 0 /\ fin.exposure = 0)
        => /\ fout = fin.px
           /\ ContrastFactor(fin.contrast) = RInt(1)
           /\ ExposureFactor(fin.exposure) = RInt(1)

\* applyFilters ran with all parameters 0 on a pixel with three different colour
\* channels
C11_Witness ==
    /\ fout # << >>
    /\ fin.variant = "exposure"
    /\ fin.brightness = 0 /\ fin.contrast = 0 /\ fin.exposure = 0
    /\ fin.px = << 77, 178, 128, 200 >>
    /\ fout = << 77, 178, 128, 200 >>

(***************************************************************************)
(* One editor page: class BrightnessTool of tool.js.  The worker's answers *)
(* to 'ready' and the 'loadNewImage' messages are inputs.  An image is one *)
(* pixel << r, g, b, a >>.                                                 *)
(***************************************************************************)
\* the pixels the browser decodes from a data URL (ctx.getImageData)
PixelsOf(img) == IF img = "imgA" THEN << 100, 150, 200, 255 >>
                                 ELSE << 10, 128, 250, 128 >>

\* whether the browser decodes the resource (img.onload) or not (img.onerror)
Decodable(img) == img \in {"imgA", "imgB"}

\* the tab the image was registered from (the record's sourceTabId)
SourceOf(img) == IF img = "imgB" THEN 2 ELSE 1

\* the values the model gives the sliders and the pointer
EditorBrightness == {0, 50}

EditorContrast == {0, 100}

EditorExposure == {0, 50}

EditorZoom == {10, 20}

MousePoints == { << 0, 0 >>, << 4, 3 >> }

SetLoad(l, rec) == (loads \ {l}) \cup {rec}

\* the filters applied to what the canvas shows instead of the original
UpdateImageCumulative(orig, b, c, e) ==
    IF orig = NoImage THEN canvasData ELSE ApplyFilters(canvasData, b, c, e)

\* tool.js:225-247  updateImage: what it leaves on the canvas
UpdateImageCanvas(orig, b, c, e) ==
    IF orig = NoImage THEN canvasData ELSE ApplyFilters(orig, b, c, e)

\* tool.js:226, 246, 279  updateImage ends with updateZoom, unless it returned early
UpdateImageZoom(orig, slider) == IF orig = NoImage THEN zoomLevel ELSE slider

\* tool.js:40-55  the state after the constructor: init ran up to its first await
\* (the 'ready' request for the URL's imageKey), or showed the error without a key
EditorStart ==
    /\ originalImageData = NoImage
    /\ canvasData = NoImage
    /\ brightnessSlider = 0
    /\ contrastSlider = 0
    /\ exposureSlider = 0
    /\ zoomSlider = 10
    /\ zoomLevel = 10
    /\ panX = 0
    /\ panY = 0
    /\ isDragging = FALSE
    /\ lastMouseX = 0
    /\ lastMouseY = 0
    /\ sourceTabId = NoTab
    /\ listening = FALSE
    /\ lastEvent = "none"
    /\ download = NoDownload
    /\ \/ /\ loads = { [ id |-> 1, init |-> TRUE, newSourceTabId |-> NoTab,
                         pc |-> "await", img |-> "none" ] }
          /\ nLoads = 1
          /\ errorShown = FALSE
          /\ spinnerShown = TRUE
       \/ /\ loads = {}
          /\ nLoads = 0
          /\ errorShown = TRUE
          /\ spinnerShown = FALSE

\* tool.js:58-63  a 'loadNewImage' message: loadImageFromKey(imageKey, sourceTabId)
LoadNewImage(src) ==
    /\ listening
    /\ nLoads < MaxLoads
    /\ nLoads' = nLoads + 1
    /\ loads' = loads \cup { [ id |-> nLoads + 1, init |-> FALSE,
                               newSourceTabId |-> src, pc |-> "await",
                               img |-> "none" ] }
    /\ lastEvent' = "other"
    /\ download' = NoDownload
    /\ UNCHANGED << originalImageData, canvasData, brightnessSlider, contrastSlider,
                    exposureSlider, zoomSlider, zoomLevel, panX, panY, isDragging,
                    lastMouseX, lastMouseY, sourceTabId, errorShown, spinnerShown,
                    listening >>
    /\ UNCHANGED << relayVars, filterVars, back >>

\* background.js:44-48, 66-70  the 'loadNewImage' message and the record of its
\* key come from one registration: both carry the tab of the click (an image
\* that does not decode may come from any tab)
SameRegistration(l, img) ==
    (l.newSourceTabId # NoTab /\ Decodable(img)) => SourceOf(img) = l.newSourceTabId

\* tool.js:78-84, 177-217  the worker answered success:true: sourceTabId is set and
\* loadImage starts the decoding (img.src = base64Data); when this was init's
\* call, init goes on and registers the 'loadNewImage' listener (tool.js:55-63)
ResponseOk(l, img) ==
    /\ l \in loads
    /\ l.pc = "await"
    /\ SameRegistration(l, img)
    /\ sourceTabId' = IF l.newSourceTabId # NoTab THEN l.newSourceTabId
                                                 ELSE SourceOf(img)
    /\ loads' = SetLoad(l, [ l EXCEPT !.pc = "decoding", !.img = img ])
    /\ listening' = (listening \/ l.init)
    /\ lastEvent' = "other"
    /\ download' = NoDownload
    /\ UNCHANGED << originalImageData, canvasData, brightnessSlider, contrastSlider,
                    exposureSlider, zoomSlider, zoomLevel, panX, panY, isDragging,
                    lastMouseX, lastMouseY, errorShown, spinnerShown, nLoads >>
    /\ UNCHANGED << relayVars, filterVars, back >>

\* tool.js:85-87, 343-348  the worker answered success:false: showError
ResponseNotFound(l) ==
    /\ l \in loads
    /\ l.pc = "await"
    /\ loads' = loads \ {l}
    /\ listening' = (listening \/ l.init)
    /\ errorShown' = TRUE
    /\ spinnerShown' = FALSE
    /\ lastEvent' = "notFound"
    /\ download' = NoDownload
    /\ UNCHANGED << originalImageData, canvasData, brightnessSlider, contrastSlider,
                    exposureSlider, zoomSlider, zoomLevel, panX, panY, isDragging,
                    lastMouseX, lastMouseY, sourceTabId, nLoads >>
    /\ UNCHANGED << relayVars, filterVars, back >>

\* tool.js:88-91, 343-348  chrome.runtime.sendMessage threw: showError
SendThrows(l) ==
    /\ l \in loads
    /\ l.pc = "await"
    /\ loads' = loads \ {l}
    /\ listening' = (listening \/ l.init)
    /\ errorShown' = TRUE
    /\ spinnerShown' = FALSE
    /\ lastEvent' = "sendThrew"
    /\ download' = NoDownload
    /\ UNCHANGED << originalImageData, canvasData, brightnessSlider, contrastSlider,
                    exposureSlider, zoomSlider, zoomLevel, panX, panY, isDragging,
                    lastMouseX, lastMouseY, sourceTabId, nLoads >>
    /\ UNCHANGED << relayVars, filterVars, back >>

\* tool.js:183-210  img.onload: zoom and pan are reset, the pixels are captured,
\* the error panel is hidden, and updateImage renders with the sliders as they are
ImgOnLoad(l) ==
    /\ l \in loads
    /\ l.pc = "decoding"
    /\ Decodable(l.img)
    /\ loads' = loads \ {l}
    /\ zoomSlider' = 10
    /\ zoomLevel' = 10
    /\ panX' = 0
    /\ panY' = 0
    /\ originalImageData' = PixelsOf(l.img)
    /\ spinnerShown' = FALSE
    /\ errorShown' = FALSE
    /\ canvasData' = ApplyFilters(PixelsOf(l.img), brightnessSlider, contrastSlider,
                                  exposureSlider)
    /\ lastEvent' = "loaded"
    /\ download' = NoDownload
    /\ UNCHANGED << brightnessSlider, contrastSlider, exposureSlider, isDragging,
                    lastMouseX, lastMouseY, sourceTabId, listening, nLoads >>
    /\ UNCHANGED << relayVars, filterVars, back >>

\* an error handler that also throws the loaded image away
ImgOnErrorClears(l) ==
    /\ l \in loads
    /\ l.pc = "decoding"
    /\ ~Decodable(l.img)
    /\ loads' = loads \ {l}
    /\ errorShown' = TRUE
    /\ spinnerShown' = FALSE
    /\ originalImageData' = NoImage
    /\ canvasData' = NoImage
    /\ lastEvent' = "decodeFailed"
    /\ download' = NoDownload
    /\ UNCHANGED << brightnessSlider, contrastSlider,
                    exposureSlider, zoomSlider, zoomLevel, panX, panY, isDragging,
                    lastMouseX, lastMouseY, sourceTabId, listening, nLoads >>
    /\ UNCHANGED << relayVars, filterVars, back >>

\* tool.js:212-215, 343-348  img.onerror: showError
ImgOnError(l) ==
    /\ l \in loads
    /\ l.pc = "decoding"
    /\ ~Decodable(l.img)
    /\ loads' = loads \ {l}
    /\ errorShown' = TRUE
    /\ spinnerShown' = FALSE
    /\ lastEvent' = "decodeFailed"
    /\ download' = NoDownload
    /\ UNCHANGED << originalImageData, canvasData, brightnessSlider, contrastSlider,
                    exposureSlider, zoomSlider, zoomLevel, panX, panY, isDragging,
                    lastMouseX, lastMouseY, sourceTabId, listening, nLoads >>
    /\ UNCHANGED << relayVars, filterVars, back >>

\* tool.js:96-98, 225-247  'input' on a filter slider: updateImage
SliderInput(b, c, e) ==
    /\ << b, c, e >> # << brightnessSlider, contrastSlider, exposureSlider >>
    /\ brightnessSlider' = b
    /\ contrastSlider' = c
    /\ exposureSlider' = e
    /\ canvasData' = UpdateImageCanvas(originalImageData, b, c, e)
    /\ zoomLevel' = UpdateImageZoom(originalImageData, zoomSlider)
    /\ lastEvent' = "other"
    /\ download' = NoDownload
    /\ UNCHANGED << originalImageData, zoomSlider, panX, panY, isDragging, lastMouseX,
                    lastMouseY, sourceTabId, errorShown, spinnerShown, listening,
                    loads, nLoads >>
    /\ UNCHANGED << relayVars, filterVars, back >>

\* tool.js:96  'input' on the brightness slider
BrightnessInput(v) == SliderInput(v, contrastSlider, exposureSlider)

\* tool.js:97  'input' on the contrast slider
ContrastInput(v) == SliderInput(brightnessSlider, v, exposureSlider)

\* tool.js:98  'input' on the exposure slider
ExposureInput(v) == SliderInput(brightnessSlider, contrastSlider, v)

\* tool.js:99, 278-287  'input' on the zoom slider: updateZoom
ZoomInput(z) ==
    /\ z # zoomSlider
    /\ zoomSlider' = z
    /\ zoomLevel' = z
    /\ lastEvent' = "other"
    /\ download' = NoDownload
    /\ UNCHANGED << originalImageData, canvasData, brightnessSlider, contrastSlider,
                    exposureSlider, panX, panY, isDragging, lastMouseX, lastMouseY,
                    sourceTabId, errorShown, spinnerShown, listening, loads, nLoads >>
    /\ UNCHANGED << relayVars, filterVars, back >>

\* tool.js:150-155  mousedown on the canvas
HandleMouseDown(p) ==
    /\ ~isDragging
    /\ isDragging' = TRUE
    /\ lastMouseX' = p[1]
    /\ lastMouseY' = p[2]
    /\ lastEvent' = "other"
    /\ download' = NoDownload
    /\ UNCHANGED << originalImageData, canvasData, brightnessSlider, contrastSlider,
                    exposureSlider, zoomSlider, zoomLevel, panX, panY, sourceTabId,
                    errorShown, spinnerShown, listening, loads, nLoads >>
    /\ UNCHANGED << relayVars, filterVars, back >>

Abs(x) == IF x < 0 THEN -x ELSE x

\* a handler that pans on every mousemove, dragging or not
HandleMouseMoveAlways(p) ==
    /\ << p[1], p[2] >> # << lastMouseX, lastMouseY >>
    /\ Abs(panX + (p[1] - lastMouseX)) <= MaxPan
    /\ Abs(panY + (p[2] - lastMouseY)) <= MaxPan
    /\ panX' = panX + (p[1] - lastMouseX)
    /\ panY' = panY + (p[2] - lastMouseY)
    /\ lastMouseX' = p[1]
    /\ lastMouseY' = p[2]
    /\ zoomLevel' = zoomSlider
    /\ lastEvent' = "other"
    /\ download' = NoDownload
    /\ UNCHANGED << originalImageData, canvasData, brightnessSlider, contrastSlider,
                    exposureSlider, zoomSlider, isDragging, sourceTabId, errorShown,
                    spinnerShown, listening, loads, nLoads >>
    /\ UNCHANGED << relayVars, filterVars, back >>

\* tool.js:157-170  mousemove on the canvas: while dragging, pan by the
\* displacement and updateZoom
HandleMouseMove(p) ==
    /\ << p[1], p[2] >> # << lastMouseX, lastMouseY >>
    /\ IF isDragging
       THEN /\ Abs(panX + (p[1] - lastMouseX)) <= MaxPan
            /\ Abs(panY + (p[2] - lastMouseY)) <= MaxPan
            /\ panX' = panX + (p[1] - lastMouseX)
            /\ panY' = panY + (p[2] - lastMouseY)
            /\ lastMouseX' = p[1]
            /\ lastMouseY' = p[2]
            /\ zoomLevel' = zoomSlider
       ELSE UNCHANGED << panX, panY, lastMouseX, lastMouseY, zoomLevel >>
    /\ lastEvent' = "other"
    /\ download' = NoDownload
    /\ UNCHANGED << originalImageData, canvasData, brightnessSlider, contrastSlider,
                    exposureSlider, zoomSlider, isDragging, sourceTabId, errorShown,
                    spinnerShown, listening, loads, nLoads >>
    /\ UNCHANGED << relayVars, filterVars, back >>

\* tool.js:110-111, 172-175  mouseup or mouseleave on the canvas
HandleMouseUp ==
    /\ isDragging
    /\ isDragging' = FALSE
    /\ lastEvent' = "other"
    /\ download' = NoDownload
    /\ UNCHANGED << originalImageData, canvasData, brightnessSlider, contrastSlider,
                    exposureSlider, zoomSlider, zoomLevel, panX, panY, lastMouseX,
                    lastMouseY, sourceTabId, errorShown, spinnerShown, listening,
                    loads, nLoads >>
    /\ UNCHANGED << relayVars, filterVars, back >>

\* where the pointer is over the canvas when the wheel turns, and which way
WheelPoints == { << 0, 0 >>, << 10, 10 >> }

WheelDeltas == {-1, 1}

\* the sum taken without the limits
WheelZoomUnclamped(zoom, delta) == zoom + delta

\* tool.js:137-138  Math.max(0.5, Math.min(3, this.zoomLevel + delta)), in tenths
WheelZoom(zoom, delta) ==
    LET sum == zoom + delta
        capped == IF 30 < sum THEN 30 ELSE sum
    IN  IF capped < 5 THEN 5 ELSE capped

\* tool.js:140-143  mouse - (mouse - pan) * (newZoom / zoomLevel)
WheelPan(mouse, pan, newZoom, zoom) == mouse - ((mouse - pan) * newZoom) \div zoom

\* tool.js:131-148  wheel on the canvas: zoom by a tenth around the pointer, then
\* updateZoom.  The model follows the wheel events that leave the pan a whole
\* number of pixels within MaxPan.
HandleWheel(delta, p) ==
    LET newZoom == WheelZoom(zoomLevel, delta)
    IN  /\ ((p[1] - panX) * newZoom) % zoomLevel = 0
        /\ ((p[2] - panY) * newZoom) % zoomLevel = 0
        /\ Abs(WheelPan(p[1], panX, newZoom, zoomLevel)) <= MaxPan
        /\ Abs(WheelPan(p[2], panY, newZoom, zoomLevel)) <= MaxPan
        /\ panX' = WheelPan(p[1], panX, newZoom, zoomLevel)
        /\ panY' = WheelPan(p[2], panY, newZoom, zoomLevel)
        /\ zoomSlider' = newZoom
        /\ zoomLevel' = newZoom
        /\ lastEvent' = "other"
        /\ download' = NoDownload
        /\ UNCHANGED << originalImageData, canvasData, brightnessSlider,
                        contrastSlider, exposureSlider, isDragging, lastMouseX,
                        lastMouseY, sourceTabId, errorShown, spinnerShown,
                        listening, loads, nLoads >>
        /\ UNCHANGED << relayVars, filterVars, back >>

\* the parameters and the view are the ones of a fresh page
AtDefaults ==
    /\ brightnessSlider = 0 /\ contrastSlider = 0 /\ exposureSlider = 0
    /\ zoomSlider = 10 /\ zoomLevel = 10 /\ panX = 0 /\ panY = 0

\* a reset that leaves the exposure slider alone
ResetAllKeepsExposure ==
    /\ brightnessSlider' = 0
    /\ contrastSlider' = 0
    /\ exposureSlider' = exposureSlider
    /\ zoomSlider' = 10
    /\ zoomLevel' = 10
    /\ panX' = 0
    /\ panY' = 0
    /\ canvasData' = UpdateImageCanvas(originalImageData, 0, 0, exposureSlider)
    /\ lastEvent' = IF AtDefaults THEN "other" ELSE "reset"
    /\ download' = NoDownload
    /\ UNCHANGED << originalImageData, isDragging, lastMouseX, lastMouseY,
                    sourceTabId, errorShown, spinnerShown, listening, loads, nLoads >>
    /\ UNCHANGED << relayVars, filterVars, back >>

\* tool.js:289-310  resetAll: sliders, zoom and pan to their defaults, then
\* updateImage; lastEvent notes a reset that had something to reset
ResetAll ==
    /\ brightnessSlider' = 0
    /\ contrastSlider' = 0
    /\ exposureSlider' = 0
    /\ zoomSlider' = 10
    /\ zoomLevel' = 10
    /\ panX' = 0
    /\ panY' = 0
    /\ canvasData' = UpdateImageCanvas(originalImageData, 0, 0, 0)
    /\ lastEvent' = IF AtDefaults THEN "other" ELSE "reset"
    /\ download' = NoDownload
    /\ UNCHANGED << originalImageData, isDragging, lastMouseX, lastMouseY,
                    sourceTabId, errorShown, spinnerShown, listening, loads, nLoads >>
    /\ UNCHANGED << relayVars, filterVars, back >>

\* tool.js:329  canvas.toDataURL('image/png'): the canvas bitmap as a PNG; the
\* CSS transform of the element is not part of the bitmap
ToDataURL(canvas) == << "image/png", canvas >>

\* an export of the image as it was loaded, without the filters
DownloadImageOriginal ==
    /\ download' = ToDataURL(originalImageData)
    /\ lastEvent' = "other"
    /\ UNCHANGED << originalImageData, canvasData, brightnessSlider, contrastSlider,
                    exposureSlider, zoomSlider, zoomLevel, panX, panY, isDragging,
                    lastMouseX, lastMouseY, sourceTabId, errorShown, spinnerShown,
                    listening, loads, nLoads >>
    /\ UNCHANGED << relayVars, filterVars, back >>

\* tool.js:325-341  downloadImage: a link to the PNG of the canvas is clicked
DownloadImage ==
    /\ download' = ToDataURL(canvasData)
    /\ lastEvent' = "other"
    /\ UNCHANGED << originalImageData, canvasData, brightnessSlider, contrastSlider,
                    exposureSlider, zoomSlider, zoomLevel, panX, panY, isDragging,
                    lastMouseX, lastMouseY, sourceTabId, errorShown, spinnerShown,
                    listening, loads, nLoads >>
    /\ UNCHANGED << relayVars, filterVars, back >>

NextEditor ==
    \/ \E src \in SourceTabs : LoadNewImage(src)
    \/ \E l \in loads, img \in Images : ResponseOk(l, img)
    \/ \E l \in loads : ResponseNotFound(l)
    \/ \E l \in loads : SendThrows(l)
    \/ \E l \in loads : ImgOnLoad(l)
    \/ \E l \in loads : ImgOnError(l)
    \/ \E v \in EditorBrightness : BrightnessInput(v)
    \/ \E v \in EditorContrast : ContrastInput(v)
    \/ \E v \in EditorExposure : ExposureInput(v)
    \/ \E z \in EditorZoom : ZoomInput(z)
    \/ \E p \in MousePoints : HandleMouseDown(p)
    \/ \E p \in MousePoints : HandleMouseMove(p)
    \/ HandleMouseUp
    \/ ResetAll
    \/ DownloadImage

\* tool.js:312-323  the page of tool.js, its back button not clicked
BackIdle == back = NoBack(FALSE)

InitEditor == RelayInit /\ EditorStart /\ BackIdle /\ FilterIdle

SpecEditor == InitEditor /\ [][NextEditor]_vars

(***************************************************************************)
(* The editor page with an image on the canvas and no load under way: the  *)
(* sliders, the wheel, the pointer, reset and export.                      *)
(***************************************************************************)
\* tool.js:183-210  the page after img.onload of its first image
EditorLoaded ==
    /\ \E img \in { i \in Images : Decodable(i) } :
          /\ originalImageData = PixelsOf(img)
          /\ canvasData = ApplyFilters(PixelsOf(img), 0, 0, 0)
          /\ sourceTabId = SourceOf(img)
    /\ brightnessSlider = 0
    /\ contrastSlider = 0
    /\ exposureSlider = 0
    /\ zoomSlider = 10
    /\ zoomLevel = 10
    /\ panX = 0
    /\ panY = 0
    /\ isDragging = FALSE
    /\ lastMouseX = 0
    /\ lastMouseY = 0
    /\ errorShown = FALSE
    /\ spinnerShown = FALSE
    /\ listening = TRUE
    /\ loads = {}
    /\ nLoads = 1
    /\ lastEvent = "loaded"
    /\ download = NoDownload
    /\ back = NoBack(FALSE)

NextView ==
    \/ \E v \in EditorBrightness : BrightnessInput(v)
    \/ \E v \in EditorContrast : ContrastInput(v)
    \/ \E v \in EditorExposure : ExposureInput(v)
    \/ \E z \in EditorZoom : ZoomInput(z)
    \/ \E p \in MousePoints : HandleMouseDown(p)
    \/ \E p \in MousePoints : HandleMouseMove(p)
    \/ HandleMouseUp
    \/ \E delta \in WheelDeltas, p \in WheelPoints : HandleWheel(delta, p)
    \/ ResetAll
    \/ DownloadImage

InitView == RelayInit /\ EditorLoaded /\ FilterIdle

SpecView == InitView /\ [][NextView]_vars

(***************************************************************************)
(* The back button.  goBack asks the worker to focus the source tab and    *)
(* awaits the answer; in the variant unnamed/part_000 it then closes the   *)
(* editor tab.  The model follows one back action at a time.  The page of  *)
(* that variant has no exposure slider and no 'loadNewImage' listener; its *)
(* init loads the image of the URL's key as loadImageFromKey does.         *)
(***************************************************************************)
\* the document is still there (window.close() was not called)
PageOpen == ~back.closed

\* tool.js:312-323, unnamed/part_000:212-229  click on the back button: with a
\* source tab the 'focusTab' request is sent and awaited; without one the variant
\* closes the tab at once
GoBack ==
    /\ PageOpen
    /\ back.pc = "idle"
    /\ back' = IF sourceTabId # NoTab
               THEN [ back EXCEPT !.pc = "focusing", !.tabId = sourceTabId,
                                  !.ended = "none" ]
               ELSE [ back EXCEPT !.closed = back.closes, !.ended = "noSource" ]
    /\ lastEvent' = "other"
    /\ download' = NoDownload
    /\ UNCHANGED << originalImageData, canvasData, brightnessSlider, contrastSlider,
                    exposureSlider, zoomSlider, zoomLevel, panX, panY, isDragging,
                    lastMouseX, lastMouseY, sourceTabId, errorShown, spinnerShown,
                    listening, loads, nLoads >>
    /\ UNCHANGED << relayVars, filterVars >>

\* tool.js:315-318, unnamed/part_000:215-220  the awaited sendMessage resolved
FocusResolved ==
    /\ PageOpen
    /\ back.pc = "focusing"
    /\ back' = [ back EXCEPT !.pc = "idle", !.closed = back.closes,
                             !.ended = "focused" ]
    /\ lastEvent' = "other"
    /\ download' = NoDownload
    /\ UNCHANGED << originalImageData, canvasData, brightnessSlider, contrastSlider,
                    exposureSlider, zoomSlider, zoomLevel, panX, panY, isDragging,
                    lastMouseX, lastMouseY, sourceTabId, errorShown, spinnerShown,
                    listening, loads, nLoads >>
    /\ UNCHANGED << relayVars, filterVars >>

\* a catch block that logs and leaves the tab open
FocusRejectedStays ==
    /\ PageOpen
    /\ back.pc = "focusing"
    /\ back' = [ back EXCEPT !.pc = "idle", !.logged = TRUE, !.closed = FALSE,
                             !.ended = "focusFailed" ]
    /\ lastEvent' = "other"
    /\ download' = NoDownload
    /\ UNCHANGED << originalImageData, canvasData, brightnessSlider, contrastSlider,
                    exposureSlider, zoomSlider, zoomLevel, panX, panY, isDragging,
                    lastMouseX, lastMouseY, sourceTabId, errorShown, spinnerShown,
                    listening, loads, nLoads >>
    /\ UNCHANGED << relayVars, filterVars >>

\* tool.js:319-321, unnamed/part_000:221-225  the awaited sendMessage threw: the
\* catch logs the error (and the variant closes the tab)
FocusRejected ==
    /\ PageOpen
    /\ back.pc = "focusing"
    /\ back' = [ back EXCEPT !.pc = "idle", !.logged = TRUE, !.closed = back.closes,
                             !.ended = "focusFailed" ]
    /\ lastEvent' = "other"
    /\ download' = NoDownload
    /\ UNCHANGED << originalImageData, canvasData, brightnessSlider, contrastSlider,
                    exposureSlider, zoomSlider, zoomLevel, panX, panY, isDragging,
                    lastMouseX, lastMouseY, sourceTabId, errorShown, spinnerShown,
                    listening, loads, nLoads >>
    /\ UNCHANGED << relayVars, filterVars >>

NextBack ==
    \/ \E l \in loads, img \in Images : PageOpen /\ ResponseOk(l, img)
    \/ \E l \in loads : PageOpen /\ ResponseNotFound(l)
    \/ \E l \in loads : PageOpen /\ SendThrows(l)
    \/ \E l \in loads : PageOpen /\ ImgOnLoad(l)
    \/ \E l \in loads : PageOpen /\ ImgOnError(l)
    \/ \E v \in EditorBrightness : PageOpen /\ BrightnessInput(v)
    \/ \E v \in EditorContrast : PageOpen /\ ContrastInput(v)
    \/ GoBack
    \/ FocusResolved
    \/ FocusRejected

\* either variant of the page, after its constructor
BackStart == back \in { NoBack(closes) : closes \in BOOLEAN }

InitBack == RelayInit /\ EditorStart /\ BackStart /\ FilterIdle

SpecBack == InitBack /\ [][NextBack]_vars

(***************************************************************************)
(* Claims about the back button.                                           *)
(***************************************************************************)
\* goBack comes to its end
GoBackEnds == FocusResolved \/ FocusRejected \/ (GoBack /\ sourceTabId = NoTab)

\* C24: in the variant whose back action closes the tab, goBack ends with the
\* editor tab closed when the focus request succeeded, when it threw and when no
\* source tab is known; a failed focus request is logged and the tab is closed
\* all the same.
C24_GoBackAlwaysCloses ==
    [][ /\ (back.closes /\ GoBackEnds) => back'.closed
        /\ (back.closes /\ FocusRejected) => (back'.logged /\ back'.closed)
      ]_vars

\* in the closing variant a back action whose focus request threw has logged the
\* error and closed the tab of a loaded image
C24_Witness ==
    /\ back.closes
    /\ back.ended = "focusFailed"
    /\ back.logged
    /\ back.closed
    /\ back.tabId = 2
    /\ originalImageData = PixelsOf("imgB")

(***************************************************************************)
(* Claims about loading an image in the editor.                            *)
(***************************************************************************)
\* C7: after a successful load the filter parameters are all 0 and the view
\* transform is zoom 1, pan (0, 0).
C7_LoadResetsParameters ==
    lastEvent = "loaded" =>
        /\ brightnessSlider = 0 /\ contrastSlider = 0 /\ exposureSlider = 0
        /\ zoomLevel = 10 /\ panX = 0 /\ panY = 0

\* a load attempt fails: success:false, a throwing send, or an image that does
\* not decode
LoadFails ==
    \E l \in loads : ResponseNotFound(l) \/ SendThrows(l) \/ ImgOnError(l)

\* C8: a failed load attempt shows the error and leaves the original pixel
\* buffer, the displayed pixel buffer, the filter parameters and the view
\* transform as they were.
C8_FailedLoadKeepsImage ==
    [][ LoadFails =>
          /\ errorShown'
          /\ UNCHANGED << originalImageData, canvasData, brightnessSlider,
                          contrastSlider, exposureSlider, zoomLevel, panX, panY >>
      ]_vars

\* an image is loaded and shown with changed parameters and view, and then a load
\* attempt failed on an image that does not decode
C8_Witness ==
    /\ lastEvent = "decodeFailed"
    /\ errorShown
    /\ originalImageData = PixelsOf("imgA")
    /\ canvasData = ApplyFilters(PixelsOf("imgA"), 50, 0, 0)
    /\ brightnessSlider = 50
    /\ zoomLevel = 20
    /\ panX = 4

(***************************************************************************)
(* Claims about the view and the reset.                                    *)
(***************************************************************************)
\* C12: whatever the sliders, the wheel and the pointer did before, resetAll
\* leaves all filter parameters 0, zoom 1, pan (0, 0), the original pixel buffer
\* as it was and the displayed pixel buffer equal to it, as a fresh load does.
C12_ResetRestoresFreshLoad ==
    [][ ResetAll =>
          /\ brightnessSlider' = 0 /\ contrastSlider' = 0 /\ exposureSlider' = 0
          /\ zoomSlider' = 10 /\ zoomLevel' = 10 /\ panX' = 0 /\ panY' = 0
          /\ originalImageData' = originalImageData
          /\ canvasData' = originalImageData
      ]_vars

\* resetAll ran on a loaded image whose parameters or view were not the defaults
C12_Witness ==
    /\ lastEvent = "reset"
    /\ originalImageData = PixelsOf("imgA")
    /\ canvasData = PixelsOf("imgA")
    /\ AtDefaults

\* C13: the zoom level is always within 0.5 .. 3.0, and a wheel event changes it
\* by at most 0.1.
C13_WheelZoomInRange ==
    /\ [](zoomLevel \in 5 .. 30)
    /\ [][ (\E delta \in WheelDeltas, p \in WheelPoints : HandleWheel(delta, p))
             => /\ zoomLevel' \in 5 .. 30
                /\ Abs(zoomLevel' - zoomLevel) <= 1
         ]_vars

\* the wheel has taken the zoom up to 3.0, which no position of the model's zoom
\* slider gives
C13_Witness ==
    /\ zoomLevel = 30
    /\ zoomSlider = 30
    /\ 30 \notin EditorZoom

\* C14: while an image is loaded the displayed pixel buffer is applyFilters of the
\* original pixel buffer with the current parameters, whatever changes came
\* before; and only a successful load writes the original pixel buffer.
C14_FiltersNotCumulative ==
    /\ [](originalImageData # NoImage =>
            canvasData = ApplyFilters(originalImageData, brightnessSlider,
                                      contrastSlider, exposureSlider))
    /\ [][ (~ \E l \in loads : ImgOnLoad(l)) =>
             originalImageData' = originalImageData ]_vars

\* two filter sliders were moved one after the other on a loaded image, and
\* filtering the displayed buffer again would have given another picture
C14_Witness ==
    /\ originalImageData = PixelsOf("imgB")
    /\ brightnessSlider = 50 /\ contrastSlider = 0 /\ exposureSlider = 50
    /\ canvasData = << 120, 255, 255, 128 >>
    /\ canvasData # ApplyFilters(ApplyFilters(PixelsOf("imgB"), 50, 0, 0), 50, 0, 50)
    /\ lastEvent = "other"

\* a step of the zoom slider, the wheel or the pointer
ViewStep ==
    \/ \E z \in EditorZoom : ZoomInput(z)
    \/ \E delta \in WheelDeltas, p \in WheelPoints : HandleWheel(delta, p)
    \/ \E p \in MousePoints : HandleMouseDown(p)
    \/ \E p \in MousePoints : HandleMouseMove(p)
    \/ HandleMouseUp

\* C15: downloadImage exports applyFilters of the original pixel buffer with the
\* current parameters, whatever zoom and pan are; and the zoom slider, the wheel
\* and the pointer never change the displayed or the original pixel buffer.
C15_ExportIsFilteredBuffer ==
    [][ /\ DownloadImage =>
             download' = ToDataURL(ApplyFilters(originalImageData, brightnessSlider,
                                                contrastSlider, exposureSlider))
        /\ ViewStep => UNCHANGED << canvasData, originalImageData >>
      ]_vars

\* a filtered image was exported while the view was zoomed and panned
C15_Witness ==
    /\ download = << "image/png", << 120, 255, 255, 128 >> >>
    /\ originalImageData = PixelsOf("imgB")
    /\ zoomLevel = 13
    /\ panX = -3
    /\ panY = -3

\* a pointer event on the canvas
PointerStep ==
    \/ \E p \in MousePoints : HandleMouseDown(p)
    \/ \E p \in MousePoints : HandleMouseMove(p)
    \/ HandleMouseUp

\* C25: a drag is active from a mousedown to the next mouseup or mouseleave; a
\* mousemove during a drag changes the pan by exactly the displacement of the
\* pointer since the previous pointer event of the drag; a mousemove outside a
\* drag, a mousedown and a mouseup leave zoom and pan as they were; no pointer
\* event changes the pixel buffers or the filter parameters.
C25_PanOnlyWhileDragging ==
    [][ /\ (isDragging' /\ ~isDragging) => \E p \in MousePoints : HandleMouseDown(p)
        /\ (~isDragging' /\ isDragging) => HandleMouseUp
        /\ \A p \in MousePoints :
              HandleMouseMove(p) =>
                IF isDragging
                THEN /\ panX' = panX + (p[1] - lastMouseX)
                     /\ panY' = panY + (p[2] - lastMouseY)
                     /\ lastMouseX' = p[1] /\ lastMouseY' = p[2]
                ELSE UNCHANGED << panX, panY, zoomLevel, zoomSlider >>
        /\ ((\E p \in MousePoints : HandleMouseDown(p)) \/ HandleMouseUp) =>
              UNCHANGED << panX, panY, zoomLevel, zoomSlider >>
        /\ PointerStep =>
              UNCHANGED << originalImageData, canvasData, brightnessSlider,
                           contrastSlider, exposureSlider >>
      ]_vars

\* a filtered and zoomed image was dragged by (4, 3), and the button was released
C25_Witness ==
    /\ ~isDragging
    /\ panX = 4 /\ panY = 3
    /\ lastMouseX = 4 /\ lastMouseY = 3
    /\ zoomLevel = 20
    /\ brightnessSlider = 50
    /\ canvasData = ApplyFilters(originalImageData, 50, 0, 0)

\* C26: when no load is under way and an image is loaded, sourceTabId is the tab
\* that image was registered from.
C26_SourceTabOfShownImage ==
    (loads = {} /\ originalImageData # NoImage) =>
        \E img \in Images :
            /\ Decodable(img)
            /\ originalImageData = PixelsOf(img)
            /\ sourceTabId = SourceOf(img)

====
